---- MODULE Spec2Model ----
(***************************************************************************)
(* A model of flip-docs/resources/experiments/basic-pareto.py: a linear    *)
(* plotting script.  The script's own code (path construction, titles,     *)
(* parameters, the order of its statements) is translated from the source. *)
(* The helper modules pdfplot and kldplot and the libraries matplotlib and *)
(* scipy are the script's environment: a call into them either completes   *)
(* or raises, and a raise ends the script since the script has no          *)
(* try/except.                                                             *)
(***************************************************************************)
EXTENDS Integers, Sequences, FiniteSets, TLC

VARIABLES
    pc,          \* the statement the script is about to run, or "done"/"failed"
    i,           \* the loop counter i of lines 30-36
    fig,         \* the figures created so far (line 26 creates the only one)
    drawn,       \* the subplots drawn so far, in order
    written,     \* the output files written so far, in order
    animations,  \* the animation objects built so far, in order
    reads,       \* the input files read so far
    events,      \* the library calls completed so far, in order
    cause,       \* why the script failed: "none", "input" or "library"
    unreadable,  \* environment: the input files that are missing or malformed
    closed,      \* environment: whether the helpers' sweep includes its end
    call,        \* function harness: the function applied and its arguments
    ret          \* function harness: the values returned

vars == <<pc, i, fig, drawn, written, animations, reads, events, cause,
          unreadable, closed, call, ret>>

-----------------------------------------------------------------------------
(* Bounds of the model. *)

\* at most this many input files are missing or malformed in one run
MaxBad == 1
\* data_loc is applied to the indices -MaxNegIndex .. MaxIndex
MaxIndex == 300
MaxNegIndex == 11
\* expected is applied to the rationals n/d, n in 0..MaxNum, d in 1..MaxDen
MaxNum == 12
MaxDen == 4

-----------------------------------------------------------------------------
(* Python built-ins the script uses. *)

Digits == "0123456789"

Lower == "abcdefghijklmnopqrstuvwxyz"

\* str(n) for a natural number n: its decimal digits, most significant first
RECURSIVE strNat(_)
strNat(n) ==
    IF n < 10 THEN SubSeq(Digits, n + 1, n + 1)
    ELSE strNat(n \div 10) \o SubSeq(Digits, (n % 10) + 1, (n % 10) + 1)

\* str(n) for an int
str(n) == IF n < 0 THEN "-" \o strNat(0 - n) ELSE strNat(n)

\* ord(c) for a lower-case letter c
ord(c) == 96 + CHOOSE k \in 1..26 : SubSeq(Lower, k, k) = c

\* chr(n) for the code n of a lower-case letter
chr(n) == SubSeq(Lower, n - 96, n - 96)

RECURSIVE Pow(_, _)
Pow(b, e) == IF e = 0 THEN 1 ELSE b * Pow(b, e - 1)

\* scipy.stats.pareto.pdf(x, b) at the rational x = <<n, d>>, loc 0, scale 1:
\* b / x^(b+1) on the support x >= 1, and 0 outside it.  The value is the
\* rational <<numerator, denominator>> (floating-point rounding is not modelled).
pareto_pdf(x, b) ==
    IF x[1] < x[2] THEN <<0, 1>>
    ELSE <<b * Pow(x[2], b + 1), Pow(x[1], b + 1)>>

-----------------------------------------------------------------------------
(* Lines 9-24: names, paths, the reference density, the axis bounds. *)

name == "basic-pareto"

dir == "../../../flip-bench/experiments/basic-pareto/"

\* a variant of data_loc that keeps only the last two digits of the index
data_loc_truncated(idx) ==
    dir \o "basic-pareto-pdf-" \o str(idx % 100) \o ".out"

data_loc(idx) == dir \o "basic-pareto-pdf-" \o str(idx) \o ".out"

\* a variant of expected that passes the shape parameter 2
expected_shape2(x, idx) == pareto_pdf(x, 2)

expected(x, idx) == pareto_pdf(x, 1)

\* expected(x): the call with the default i = -1
expected_default(x) == expected(x, 0 - 1)

xmin == 0
xmax == 10
ymin == 0
ymax == 1

figsize == <<20, 5>>

data_counts == <<40, 60, 220>>

(* Lines 41-47: the parameters of the KL-divergence plot. *)

countmin == 40
countmax == 500
rearr_start == 50
rearr_period == 100
\* 0.25, as the rational <<numerator, denominator>>
kld_max == <<25, 100>>

kld_data_loc == dir \o "basic-pareto-kld.out"

(* Lines 63-66: the parameters of the animations. *)

start == 10
end == 500
step == 10
fps == 4

-----------------------------------------------------------------------------
(* The environment: the input files, and the helper modules' use of them. *)

\* The update counts an animation sweeps: the helper iterates over the numeric
\* range from first to last in steps of by.  Whether last itself belongs to the
\* range is the helper's choice, which the script does not make: includes_last
\* says which.
AnimationFrames(first, last, by, includes_last) ==
    {c \in first..(IF includes_last THEN last ELSE last - 1) :
        (c - first) % by = 0}

\* the files pdfplt.animated_pdfplot_* reads when called with args: the path
\* function passed (always data_loc) applied to every count of the sweep
AnimationFiles(args) ==
    {data_loc(c) :
        c \in AnimationFrames(args.start, args.end, args.step, closed)}

\* update counts of snapshot files neither the figure nor a sweep asks for
OtherCounts == {0, 45, 510}

Range(s) == {s[k] : k \in DOMAIN s}

\* the input files that may be present, missing or malformed
InputFiles ==
    {data_loc(c) : c \in AnimationFrames(start, end, step, TRUE)
                        \cup Range(data_counts) \cup OtherCounts}
        \cup {kld_data_loc}

\* the sets of at most k input files
RECURSIVE SetsUpTo(_)
SetsUpTo(k) ==
    IF k = 0 THEN {{}}
    ELSE LET smaller == SetsUpTo(k - 1)
         IN  smaller \cup {S \cup {f} : S \in smaller, f \in InputFiles}

-----------------------------------------------------------------------------
(* The script, statement by statement. *)

NoCall == <<"none">>

Init ==
    /\ pc = "figure"
    /\ i = 0
    /\ fig = <<>>
    /\ drawn = <<>>
    /\ written = <<>>
    /\ animations = <<>>
    /\ reads = {}
    /\ events = <<>>
    /\ cause = "none"
    /\ unreadable \in SetsUpTo(MaxBad)
    /\ closed \in BOOLEAN
    /\ call = NoCall
    /\ ret = NoCall

\* An uncaught exception: the script stops at the statement that raised.
Fail(why) ==
    /\ pc' = "failed"
    /\ cause' = why
    /\ UNCHANGED <<i, fig, drawn, written, animations, reads, events,
                   unreadable, closed, call, ret>>

\* line 26: fig = plt.figure(figsize=(20, 5))
Figure ==
    /\ pc = "figure"
    /\ \/ /\ fig' = Append(fig, [figsize |-> figsize])
          /\ events' = Append(events, <<"figure", "">>)
          /\ i' = 0                                          \* line 30
          /\ pc' = "loop"
          /\ UNCHANGED <<drawn, written, animations, reads, cause,
                         unreadable, closed, call, ret>>
       \/ Fail("library")

\* a variant of annotation that letters the subplots from the 1-based position
annotation_one_based(k, data_count) ==
    "(" \o chr(ord("a") + k + 1) \o ")" \o " pdf at update count: "
        \o str(data_count)

\* line 33: the title of the subplot of the k-th iteration
annotation(k, data_count) ==
    "(" \o chr(ord("a") + k) \o ")" \o " pdf at update count: " \o str(data_count)

\* lines 32-35: the subplot one iteration draws
SnapshotSubplot(k, data_count) ==
    [nrows |-> 1, ncols |-> Len(data_counts) + 1, index |-> k + 1,
     title |-> annotation(k, data_count),
     plot |-> "pdfplot_bar", expected |-> "expected",
     loc |-> data_loc(data_count),
     xmin |-> xmin, xmax |-> xmax, ymin |-> ymin, ymax |-> ymax]

\* a variant of Subplot that catches the failure of a snapshot and goes on
\* with the next one
SubplotSkipping ==
    /\ pc = "loop"
    /\ i < Len(data_counts)
    /\ LET data_count == data_counts[i + 1]
           sub == SnapshotSubplot(i, data_count)
           ok == sub.loc \notin unreadable
       IN  /\ drawn' = IF ok THEN Append(drawn, sub) ELSE drawn
           /\ reads' = IF ok THEN reads \cup {sub.loc} ELSE reads
           /\ events' = IF ok THEN Append(events, <<"pdfplot_bar", sub.loc>>)
                        ELSE events
           /\ i' = i + 1
           /\ pc' = IF i + 1 < Len(data_counts) THEN "loop" ELSE "kld"
           /\ UNCHANGED <<fig, written, animations, cause, unreadable, closed,
                          call, ret>>

\* lines 31-36: one iteration of the loop over data_counts
Subplot ==
    /\ pc = "loop"
    /\ i < Len(data_counts)
    /\ LET data_count == data_counts[i + 1]
           sub == SnapshotSubplot(i, data_count)
       IN  \/ /\ sub.loc \notin unreadable
              /\ drawn' = Append(drawn, sub)
              /\ reads' = reads \cup {sub.loc}
              /\ events' = Append(events, <<"pdfplot_bar", sub.loc>>)
              /\ i' = i + 1
              /\ pc' = IF i + 1 < Len(data_counts) THEN "loop" ELSE "kld"
              /\ UNCHANGED <<fig, written, animations, cause, unreadable, closed,
                             call, ret>>
           \/ /\ sub.loc \in unreadable
              /\ Fail("input")
           \/ Fail("library")

\* lines 49-51: the subplot of the KL-divergence
KldSubplot ==
    [nrows |-> 1, ncols |-> Len(data_counts) + 1,
     index |-> Len(data_counts) + 1,
     title |-> "(d) KL-divergence",
     plot |-> "kldplot",
     loc |-> kld_data_loc,
     kld_max |-> kld_max, countmin |-> countmin, countmax |-> countmax,
     rearr_start |-> rearr_start, rearr_period |-> rearr_period]

\* lines 47-51
KldPlot ==
    /\ pc = "kld"
    /\ LET sub == KldSubplot
       IN  \/ /\ sub.loc \notin unreadable
              /\ drawn' = Append(drawn, sub)
              /\ reads' = reads \cup {sub.loc}
              /\ events' = Append(events, <<"kldplot", sub.loc>>)
              /\ pc' = "savefig_pdf"
              /\ UNCHANGED <<i, fig, animations, written, cause, unreadable, closed,
                             call, ret>>
           \/ /\ sub.loc \in unreadable
              /\ Fail("input")
           \/ Fail("library")

\* A call that writes the file f: it completes, or it raises, and then it may
\* leave a partly written f behind.
WriteFile(f, op, next) ==
    \/ /\ written' = Append(written, f)
       /\ events' = Append(events, <<op, f>>)
       /\ pc' = next
       /\ UNCHANGED <<i, fig, drawn, animations, reads, cause, unreadable, closed,
                      call, ret>>
    \/ Fail("library")
    \/ /\ written' = Append(written, f)
       /\ pc' = "failed"
       /\ cause' = "library"
       /\ UNCHANGED <<i, fig, drawn, animations, reads, events, unreadable, closed,
                      call, ret>>

\* a variant of SavefigPdf that saves the figure over the divergence series
SavefigPdfOverInput ==
    /\ pc = "savefig_pdf"
    /\ WriteFile(kld_data_loc, "savefig", "savefig_png")

\* a variant of SavefigPdf after which the animations start at once
SavefigPdfThenAnimations ==
    /\ pc = "savefig_pdf"
    /\ WriteFile(name \o ".pdf", "savefig", "animation1")

\* line 57: plt.savefig(name + '.pdf')
SavefigPdf ==
    /\ pc = "savefig_pdf"
    /\ WriteFile(name \o ".pdf", "savefig", "savefig_png")

\* line 58: plt.savefig(name + '.png')
SavefigPng ==
    /\ pc = "savefig_png"
    /\ WriteFile(name \o ".png", "savefig", "animation1")

\* line 68: the arguments of animated_pdfplot_errorbar
Animation1Args ==
    [data_loc |-> "data_loc", start |-> start, end |-> end, step |-> step,
     expected |-> "expected",
     xmin |-> xmin, xmax |-> xmax, ymin |-> ymin, ymax |-> ymax]

\* line 69: the arguments of utd_animation1.save besides the file name
Save1Args == [writer |-> "imagemagick", fps |-> fps]

\* a variant of Animation2Args with another upper bound of the x axis
Animation2ArgsWide ==
    [data_loc |-> "data_loc", start |-> start, end |-> end, step |-> step,
     expected |-> "expected",
     xmin |-> xmin, xmax |-> xmax * 10, ymin |-> ymin, ymax |-> ymax]

\* line 71: the arguments of animated_pdfplot_bar
Animation2Args ==
    [data_loc |-> "data_loc", start |-> start, end |-> end, step |-> step,
     expected |-> "expected",
     xmin |-> xmin, xmax |-> xmax, ymin |-> ymin, ymax |-> ymax]

\* line 72: the arguments of utd_animation2.save besides the file name
Save2Args == [writer |-> "imagemagick", fps |-> fps]

\* A call pdfplt.<plot>(data_loc, start, end, step, expected, ...): it returns
\* an animation object.  Whether the helper reads the snapshot files when the
\* animation is built or when it is saved is not the script's choice: both
\* happen.
BuildAnimation(plot, args, next) ==
    \E eager \in BOOLEAN :
        LET files == AnimationFiles(args)
        IN  \/ /\ eager => files \cap unreadable = {}
               /\ animations' = Append(animations,
                     [plot |-> plot, args |-> args, loaded |-> eager,
                      save |-> <<>>])
               /\ reads' = IF eager THEN reads \cup files ELSE reads
               /\ events' = Append(events, <<plot, "">>)
               /\ pc' = next
               /\ UNCHANGED <<i, fig, drawn, written, cause, unreadable, closed,
                              call, ret>>
            \/ /\ eager
               /\ files \cap unreadable # {}
               /\ Fail("input")
            \/ Fail("library")

\* A call utd_animation<k>.save(f, writer='imagemagick', fps=fps): it renders
\* the frames into f.  When it raises it may leave a partly written f behind.
SaveAnimation(k, f, args, next) ==
    LET anim == animations[k]
        files == AnimationFiles(anim.args)
        readable == anim.loaded \/ files \cap unreadable = {}
    IN  \/ /\ readable
           /\ written' = Append(written, f)
           /\ animations' = [animations EXCEPT ![k].save = <<f, args>>]
           /\ reads' = reads \cup files
           /\ events' = Append(events, <<"save", f>>)
           /\ pc' = next
           /\ UNCHANGED <<i, fig, drawn, cause, unreadable, closed, call, ret>>
        \/ \E partial \in BOOLEAN :
              /\ written' = IF partial THEN Append(written, f) ELSE written
              /\ pc' = "failed"
              /\ cause' \in {"library"} \cup (IF readable THEN {} ELSE {"input"})
              /\ UNCHANGED <<i, fig, drawn, animations, reads, events,
                             unreadable, closed, call, ret>>

\* line 68: utd_animation1 = pdfplt.animated_pdfplot_errorbar(...)
Animation1 ==
    /\ pc = "animation1"
    /\ BuildAnimation("animated_pdfplot_errorbar", Animation1Args, "save1")

\* a variant of Save1 that saves under the name of the second animation
Save1AsHisto ==
    /\ pc = "save1"
    /\ SaveAnimation(1, name \o "-histo.gif", Save1Args, "animation2")

\* line 69: utd_animation1.save(name + '-errorbar.gif', ...)
Save1 ==
    /\ pc = "save1"
    /\ SaveAnimation(1, name \o "-errorbar.gif", Save1Args, "animation2")

\* line 71: utd_animation2 = pdfplt.animated_pdfplot_bar(...)
Animation2 ==
    /\ pc = "animation2"
    /\ BuildAnimation("animated_pdfplot_bar", Animation2Args, "save2")

\* a variant of Save2 that ends the script without saving
Save2NotSaving ==
    /\ pc = "save2"
    /\ pc' = "done"
    /\ UNCHANGED <<i, fig, drawn, written, animations, reads, events, cause,
                   unreadable, closed, call, ret>>

\* line 72: utd_animation2.save(name + '-histo.gif', ...)
Save2 ==
    /\ pc = "save2"
    /\ SaveAnimation(2, name \o "-histo.gif", Save2Args, "done")

Next ==
    \/ Figure
    \/ Subplot
    \/ KldPlot
    \/ SavefigPdf
    \/ SavefigPng
    \/ Animation1
    \/ Save1
    \/ Animation2
    \/ Save2

Spec == Init /\ [][Next]_vars

\* The script is one sequential process: while a statement is left to run, it
\* runs.
FairSpec == Spec /\ WF_vars(Next)

-----------------------------------------------------------------------------
(* The functions of lines 12-16 applied to arguments drawn from bounded sets. *)

Indices == (0 - MaxNegIndex)..MaxIndex

\* the rationals <<n, d>> = n/d that expected is applied to
Inputs == (0..MaxNum) \X (1..MaxDen)

\* the values passed for the second parameter of expected
SecondArgs == {0 - 1, 0, 3, 40}

FnInit ==
    /\ pc = "figure"
    /\ i = 0
    /\ fig = <<>>
    /\ drawn = <<>>
    /\ written = <<>>
    /\ animations = <<>>
    /\ reads = {}
    /\ events = <<>>
    /\ cause = "none"
    /\ unreadable = {}
    /\ closed = FALSE
    /\ call \in {<<"data_loc", a, b>> : a \in Indices, b \in Indices}
          \cup {<<"expected", x, a, b>> : x \in Inputs,
                                          a \in SecondArgs, b \in SecondArgs}
    /\ ret = NoCall

\* data_loc(a) and data_loc(b)
CallDataLoc ==
    /\ call[1] = "data_loc"
    /\ ret = NoCall
    /\ ret' = <<data_loc(call[2]), data_loc(call[3])>>
    /\ UNCHANGED <<pc, i, fig, drawn, written, animations, reads, events,
                   cause, unreadable, closed, call>>

\* expected(x, a), expected(x, b) and expected(x)
CallExpected ==
    /\ call[1] = "expected"
    /\ ret = NoCall
    /\ ret' = <<expected(call[2], call[3]), expected(call[2], call[4]),
                expected_default(call[2])>>
    /\ UNCHANGED <<pc, i, fig, drawn, written, animations, reads, events,
                   cause, unreadable, closed, call>>

FnNext ==
    \/ CallDataLoc
    \/ CallExpected

FnSpec == FnInit /\ [][FnNext]_vars

-----------------------------------------------------------------------------
(* Properties of data_loc and expected, checked under FnSpec. *)

SnapshotPrefix ==
    "../../../flip-bench/experiments/basic-pareto/basic-pareto-pdf-"

KldPath == "../../../flip-bench/experiments/basic-pareto/basic-pareto-kld.out"

IsDigit(c) == \E k \in 1..10 : SubSeq("0123456789", k, k) = c

DigitValue(c) == (CHOOSE k \in 1..10 : SubSeq("0123456789", k, k) = c) - 1

\* the number a string of digits denotes
RECURSIVE ParseNat(_)
ParseNat(s) ==
    IF Len(s) = 0 THEN 0
    ELSE 10 * ParseNat(SubSeq(s, 1, Len(s) - 1))
            + DigitValue(SubSeq(s, Len(s), Len(s)))

\* s is a non-empty string of digits with no leading zero, except "0" itself
IsNatText(s) ==
    /\ Len(s) >= 1
    /\ \A k \in 1..Len(s) : IsDigit(SubSeq(s, k, k))
    /\ Len(s) > 1 => SubSeq(s, 1, 1) # "0"

\* s is the decimal text of the integer n
IsDecimalTextOf(s, n) ==
    IF n < 0
    THEN /\ Len(s) >= 2
         /\ SubSeq(s, 1, 1) = "-"
         /\ IsNatText(SubSeq(s, 2, Len(s)))
         /\ ParseNat(SubSeq(s, 2, Len(s))) = 0 - n
    ELSE /\ IsNatText(s)
         /\ ParseNat(s) = n

\* path is SnapshotPrefix, then the decimal text of n, then ".out"
IsSnapshotPathOf(path, n) ==
    LET p == Len(SnapshotPrefix)
    IN  /\ Len(path) > p + 4
        /\ SubSeq(path, 1, p) = SnapshotPrefix
        /\ SubSeq(path, Len(path) - 3, Len(path)) = ".out"
        /\ IsDecimalTextOf(SubSeq(path, p + 1, Len(path) - 4), n)

\* C1: data_loc(i) is the directory prefix, "basic-pareto-pdf-", the decimal
\* text of i and ".out"; kld_data_loc is the same directory prefix followed by
\* "basic-pareto-kld.out"; two indices give the same path only when they are
\* the same index.
C1_PathTemplate ==
    /\ kld_data_loc = KldPath
    /\ (call[1] = "data_loc" /\ ret # NoCall) =>
          /\ IsSnapshotPathOf(ret[1], call[2])
          /\ IsSnapshotPathOf(ret[2], call[3])
          /\ (ret[1] = ret[2]) <=> (call[2] = call[3])
          /\ ret[1] # kld_data_loc

\* data_loc was applied to 220 and to a different, negative index
C1_Witness ==
    /\ call = <<"data_loc", 220, 0 - 7>>
    /\ ret = <<SnapshotPrefix \o "220.out", SnapshotPrefix \o "-7.out">>

\* the rationals p and q are equal
RatEq(p, q) == p[1] * q[2] = q[1] * p[2]

\* C2: for x >= 0, expected(x, i) is the Pareto density with shape 1, that is
\* 1/x^2 for x >= 1 and 0 for 0 <= x < 1, and it does not depend on i:
\* expected(x, i) = expected(x, j) = expected(x).
C2_ParetoDensity ==
    (call[1] = "expected" /\ ret # NoCall) =>
        LET n == call[2][1]
            d == call[2][2]
        IN  /\ \A k \in 1..3 : ret[k][2] > 0
            /\ n >= d => RatEq(ret[1], <<d * d, n * n>>)
            /\ n < d => RatEq(ret[1], <<0, 1>>)
            /\ RatEq(ret[1], ret[2])
            /\ RatEq(ret[2], ret[3])

\* expected was applied to x = 5/2 with two different second arguments and
\* returned 4/25
C2_Witness ==
    /\ call[1] = "expected"
    /\ call[2] = <<5, 2>>
    /\ call[3] # call[4]
    /\ ret # NoCall
    /\ RatEq(ret[1], <<4, 25>>)

-----------------------------------------------------------------------------
(* Properties of the script's run. *)

Snapshot40 == SnapshotPrefix \o "40.out"
Snapshot60 == SnapshotPrefix \o "60.out"
Snapshot220 == SnapshotPrefix \o "220.out"

FourOutputs ==
    <<"basic-pareto.pdf", "basic-pareto.png", "basic-pareto-errorbar.gif",
      "basic-pareto-histo.gif">>

\* the update counts 10, 20, ..., 490
SweepPoints == {10 + 10 * k : k \in 0..48}

SweepFiles == {f \in InputFiles : \E c \in SweepPoints : IsSnapshotPathOf(f, c)}

Snapshot500 == SnapshotPrefix \o "500.out"

\* the input files the script references: the divergence series, the sweep's
\* snapshots 10..490, and the snapshot 500 when the sweep includes its end
RequiredInputs ==
    SweepFiles \cup {KldPath} \cup (IF closed THEN {Snapshot500} ELSE {})

IsPrefix(s, t) == Len(s) <= Len(t) /\ s = SubSeq(t, 1, Len(s))

\* C3: when every input file the script references is readable and no library
\* call fails, the script ends without an error, and when it has ended
\* normally exactly the four output files have been written.
C3_Completes ==
    /\ [](pc = "done" => written = FourOutputs /\ cause = "none")
    /\ [](RequiredInputs \cap unreadable = {} => cause # "input")
    /\ (RequiredInputs \cap unreadable = {})
          ~> (pc = "done" \/ cause = "library")

\* the script has ended normally with every input file readable
C3_Witness ==
    /\ pc = "done"
    /\ unreadable = {}
    /\ written = FourOutputs
    /\ Len(events) = 11

\* the input file the statement at pc reads itself
StatementInputs ==
    IF pc = "loop" /\ Len(drawn) < 3
    THEN {<<Snapshot40, Snapshot60, Snapshot220>>[Len(drawn) + 1]}
    ELSE IF pc = "kld" THEN {KldPath} ELSE {}

\* C4: a failure aborts the script at the step where it happens: a step whose
\* input is unreadable ends in the failed state, no step runs once the script
\* has failed, no file of a completed call was unreadable, and the script is
\* never done after a failure.
C4_FailureAborts ==
    [][/\ pc = "failed" => UNCHANGED vars
       /\ (cause' # "none") <=> (pc' = "failed")
       /\ StatementInputs \cap unreadable # {} => pc' = "failed"
       /\ reads' \cap unreadable = {}
       /\ pc' \in {"animation2", "save2", "done"} =>
              SweepFiles \cap unreadable = {}
       /\ pc' = "done" => RequiredInputs \cap unreadable = {}]_vars

\* the script failed at the second snapshot, whose file is unreadable
C4_Witness ==
    /\ pc = "failed"
    /\ cause = "input"
    /\ unreadable = {Snapshot60}
    /\ Len(drawn) = 1
    /\ written = <<>>

\* C5: the script writes no input file, and every file it has written is one
\* of the four output files.
C5_WritesOnlyOutputs ==
    /\ \A k \in DOMAIN written :
          /\ written[k] \in Range(FourOutputs)
          /\ written[k] \notin InputFiles
          /\ written[k] \notin reads
    /\ reads \subseteq InputFiles

\* all four files are written and all inputs have been read
C5_Witness ==
    /\ Len(written) = 4
    /\ reads = RequiredInputs

\* C6: every subplot lies in a grid of 1 row and 4 columns at the position of
\* its turn; the k-th iteration (k = 0, 1, 2) draws position k+1 titled
\* "(a|b|c) pdf at update count: N" from data_loc(N), N = 40, 60, 220; after
\* the loop i = 3; the KL-divergence subplot is at position 4, titled
\* "(d) KL-divergence", from basic-pareto-kld.out.
C6_StaticFigure ==
    /\ Len(drawn) <= 4
    /\ \A k \in DOMAIN drawn :
          /\ drawn[k].nrows = 1
          /\ drawn[k].ncols = 4
          /\ drawn[k].index = k
    /\ Len(drawn) >= 1 =>
          /\ drawn[1].title = "(a) pdf at update count: 40"
          /\ drawn[1].loc = Snapshot40
          /\ drawn[1].plot = "pdfplot_bar"
    /\ Len(drawn) >= 2 =>
          /\ drawn[2].title = "(b) pdf at update count: 60"
          /\ drawn[2].loc = Snapshot60
          /\ drawn[2].plot = "pdfplot_bar"
    /\ Len(drawn) >= 3 =>
          /\ drawn[3].title = "(c) pdf at update count: 220"
          /\ drawn[3].loc = Snapshot220
          /\ drawn[3].plot = "pdfplot_bar"
    /\ Len(drawn) = 4 =>
          /\ drawn[4].title = "(d) KL-divergence"
          /\ drawn[4].loc = KldPath
          /\ drawn[4].plot = "kldplot"
    /\ pc = "loop" => i = Len(drawn) /\ i < 3
    /\ pc = "kld" => i = 3 /\ Len(drawn) = 3
    /\ pc \notin {"figure", "loop", "kld", "failed"} =>
          i = 3 /\ Len(drawn) = 4

\* the four subplots are drawn
C6_Witness ==
    /\ pc = "savefig_pdf"
    /\ Len(drawn) = 4
    /\ i = 3

ExpectedEvents ==
    <<<<"figure", "">>,
      <<"pdfplot_bar", Snapshot40>>,
      <<"pdfplot_bar", Snapshot60>>,
      <<"pdfplot_bar", Snapshot220>>,
      <<"kldplot", KldPath>>,
      <<"savefig", "basic-pareto.pdf">>,
      <<"savefig", "basic-pareto.png">>,
      <<"animated_pdfplot_errorbar", "">>,
      <<"save", "basic-pareto-errorbar.gif">>,
      <<"animated_pdfplot_bar", "">>,
      <<"save", "basic-pareto-histo.gif">>>>

\* C7: the calls complete in one fixed order: the snapshots 40, 60, 220, the
\* KL-divergence, basic-pareto.pdf, basic-pareto.png, the error-bar animation
\* and its save, the bar animation and its save; no figure file is written
\* before the four subplots are drawn, and no animation is built before both
\* figure files are written.
C7_FixedOrder ==
    /\ IsPrefix(events, ExpectedEvents)
    /\ pc = "done" => events = ExpectedEvents
    /\ written # <<>> => Len(drawn) = 4
    /\ animations # <<>> =>
          /\ Len(written) >= 2
          /\ written[1] = "basic-pareto.pdf"
          /\ written[2] = "basic-pareto.png"

\* the bar animation has been built
C7_Witness ==
    /\ pc = "save2"
    /\ Len(events) = 10
    /\ Len(animations) = 2

\* C8: the output files written so far are a prefix of basic-pareto.pdf,
\* basic-pareto.png, basic-pareto-errorbar.gif, basic-pareto-histo.gif, also
\* after a failure; once the script has reached the animations, also when it
\* fails there, basic-pareto.pdf and basic-pareto.png are written.
C8_OutputPrefix ==
    /\ IsPrefix(written, FourOutputs)
    /\ (Len(events) >= 7 \/ animations # <<>>) => Len(written) >= 2

\* the save of the first animation failed with both figure files written
C8_Witness ==
    /\ pc = "failed"
    /\ Len(animations) = 1
    /\ written = <<"basic-pareto.pdf", "basic-pareto.png">>

ExpectedAnimationArgs ==
    [data_loc |-> "data_loc", start |-> 10, end |-> 500, step |-> 10,
     expected |-> "expected", xmin |-> 0, xmax |-> 10, ymin |-> 0, ymax |-> 1]

\* C9: both animations are built from data_loc, start=10, end=500, step=10,
\* expected and the axis bounds 0, 10, 0, 1 of the snapshot subplots, the
\* error-bar one first, and both are saved at fps=4.
C9_SameAnimationInputs ==
    /\ Len(animations) <= 2
    /\ \A k \in DOMAIN animations :
          /\ animations[k].args = ExpectedAnimationArgs
          /\ animations[k].save # <<>> =>
                /\ animations[k].save[2].fps = 4
                /\ animations[k].save[2].writer = "imagemagick"
          /\ \A m \in 1..3 :
                /\ m <= Len(drawn)
                /\ drawn[m].expected = animations[k].args.expected
                /\ drawn[m].xmin = animations[k].args.xmin
                /\ drawn[m].xmax = animations[k].args.xmax
                /\ drawn[m].ymin = animations[k].args.ymin
                /\ drawn[m].ymax = animations[k].args.ymax
    /\ Len(animations) >= 1 =>
          animations[1].plot = "animated_pdfplot_errorbar"
    /\ Len(animations) = 2 =>
          /\ animations[2].plot = "animated_pdfplot_bar"
          /\ animations[1].args = animations[2].args
          /\ animations[1].save # <<>>

\* both animations are built and saved
C9_Witness ==
    /\ pc = "done"
    /\ Len(animations) = 2
    /\ animations[1].save # <<>>
    /\ animations[2].save # <<>>

\* The snapshots of the static figure are points 10 + 10k < 500 of the sweep
\* and lie in the KL-divergence plot's range [40, 500]; whichever way the
\* sweep ends, the figure's snapshot files are among the files an animation
\* reads, and a completed run has read every referenced input file.
StaticCountsOnSweep ==
    /\ \A k \in DOMAIN drawn :
          drawn[k].plot = "pdfplot_bar" =>
              \E c \in SweepPoints :
                  /\ drawn[k].loc = data_loc(c)
                  /\ 40 <= c
                  /\ c <= 500
    /\ Len(drawn) = 4 =>
          /\ drawn[4].countmin = 40
          /\ drawn[4].countmax = 500
    /\ \A k \in DOMAIN drawn : drawn[k].loc \in RequiredInputs
    /\ pc = "done" =>
          /\ reads = RequiredInputs
          /\ RequiredInputs \cap unreadable = {}
    /\ Cardinality(SweepFiles) = 49
====
